---- MODULE Spec2Model ----
(***************************************************************************)
(* The api client (axios instance + axios-retry + the request and response *)
(* interceptors of src/services/api.ts), the auth slice of the Redux store *)
(* with its thunks, redux-persist's whitelist, and the ProtectedRoute      *)
(* component of the router.                                                *)
(*                                                                         *)
(* Granularity.  JavaScript runs one task at a time: everything a promise  *)
(* chain does between two network events or timers runs without another    *)
(* handler in between.  One action of the model is therefore one task: the *)
(* arrival of a response together with every interceptor, thunk and        *)
(* reducer continuation it triggers, up to the next request being sent.    *)
(***************************************************************************)
EXTENDS Integers, FiniteSets, Sequences, TLC

\* ---------------------------------------------------------------- bounds
MaxSends == 2                      \* api calls made by the application in one run

\* ------------------------------------------------------ program constants
MaxRetries == 3                    \* axiosRetry(api, { retries: 3, ... })

\* ------------------------------------------------------------ value sets
Null     == "null"                 \* null / undefined / absent key
Reqs     == {1, 2}                 \* two requests can be in flight together
Tokens   == {"t1", "t2"}           \* access tokens the backend may issue
RTokens  == {"r1"}                 \* refresh tokens the backend may issue
Users    == {"u1"}
Kinds    == {"data", "login", "register", "logout"}
ServerMessage == "Invalid credentials"
Bodies   == {Null, ServerMessage}  \* response.data.message of an error response
Fallback == "An unexpected error occurred"

\* An error as the interceptors and getErrorMessage see it.  status = 0 is an
\* error without a response (error.response undefined): a network error.
\* axios: axios.isAxiosError(error); isError: error instanceof Error.
NoError ==
  [axios |-> FALSE, isError |-> FALSE, status |-> 0, body |-> Null, message |-> Null]

AxiosMessage(status) ==
  IF status = 0 THEN "Network Error"
  ELSE IF status = 401 THEN "Request failed with status code 401"
  ELSE IF status = 404 THEN "Request failed with status code 404"
  ELSE "Request failed with status code 500"

AxiosError(status, body) ==
  [axios |-> TRUE, isError |-> TRUE, status |-> status, body |-> body,
   message |-> AxiosMessage(status)]

ErrorStatuses == {0, 401, 404, 500}

\* The errors a call can fail with: an error without a response has no body.
Errors == {AxiosError(s, b) : s \in ErrorStatuses \ {0}, b \in Bodies}
            \cup {AxiosError(0, Null)}

\* What a catch block or an onError callback may be handed (error: unknown):
\* axios errors whose body message or own message may be absent or empty,
\* other Errors, and values that are no Error at all.
ErrorValues ==
  [axios : {TRUE}, isError : {TRUE}, status : {500}, body : {Null, "", ServerMessage},
   message : {"", AxiosMessage(500)}]
    \cup [axios : {FALSE}, isError : {TRUE}, status : {0}, body : {Null},
          message : {"", "boom"}]
    \cup [axios : {FALSE}, isError : {FALSE}, status : {0}, body : {Null},
          message : {Null, "not an Error"}]

VARIABLES
  ls,          \* localStorage: auth_token and refresh_token
  persisted,   \* localStorage 'persist:root': <<>> or <<auth slice>>
  auth,        \* the Redux auth slice
  req,         \* per slot: the request config, its promise and its position
  sent,        \* api calls made so far
  href,        \* a pending window.location.href assignment, or Null
  loggedOut,   \* history: a refresh failed and no login has succeeded since
  location,    \* the router's current path
  from,        \* location.state.from handed over by <Navigate>
  rendered,    \* what the matched route element rendered last
  example,     \* the Redux example slice
  persistedExample,  \* what persist:root holds of the example slice: <<>> or <<slice>>
  boundary,    \* this.state of the ErrorBoundary around the routes
  cache,       \* the query cache: per query key absent, fresh or invalidated
  mutation,    \* the mutation a component runs through one of the mutation hooks
  logged,      \* the message the last console.error of an onError callback carried
  query        \* a query of the shared queryClient whose queryFn calls the api client

apiVars   == <<ls, persisted, auth, req, sent, href, loggedOut, query>>
routeVars == <<location, from, rendered>>
storeVars == <<example, persistedExample>>
\* what the api client and the router leave alone
boundaryVars == <<boundary>>
cacheVars == <<cache, mutation, logged>>
otherVars == <<storeVars, boundaryVars, cacheVars>>
vars      == <<ls, persisted, auth, req, sent, href, loggedOut, location, from, rendered,
               example, persistedExample, boundary, cache, mutation, logged, query>>

\* ------------------------------------------------------------- auth slice
initialState(storage) ==
  [user |-> Null, token |-> storage.auth_token, refreshToken |-> storage.refresh_token,
   isAuthenticated |-> FALSE, isLoading |-> FALSE, error |-> Null]

EmptyStorage == [auth_token |-> Null, refresh_token |-> Null]

\* localStorage.setItem of both token keys / removeItem of both token keys
PersistTokens(storage, payload) ==
  [storage EXCEPT !.auth_token = payload.token, !.refresh_token = payload.refreshToken]

ClearTokens_KeepRefresh(storage) == [storage EXCEPT !.auth_token = Null]

ClearTokens(storage) ==
  [storage EXCEPT !.auth_token = Null, !.refresh_token = Null]

\* Reducers: each maps the slice to the next slice; the localStorage writes the
\* reducer makes are applied by the action that runs it.
setCredentials_TokenOnly(state, payload) ==
  [state EXCEPT !.user = payload.user, !.token = payload.token,
                !.isAuthenticated = TRUE]

setCredentials(state, payload) ==
  [state EXCEPT !.user = payload.user, !.token = payload.token,
                !.refreshToken = payload.refreshToken, !.isAuthenticated = TRUE]

clearCredentials(state) ==
  [state EXCEPT !.user = Null, !.token = Null, !.refreshToken = Null,
                !.isAuthenticated = FALSE, !.error = Null]

clearError(state) == [state EXCEPT !.error = Null]

loginPending(state) == [state EXCEPT !.isLoading = TRUE, !.error = Null]

loginFulfilled_KeepsLoading(state, payload) ==
  [state EXCEPT !.user = payload.user, !.token = payload.token,
                !.refreshToken = payload.refreshToken, !.isAuthenticated = TRUE]

loginFulfilled(state, payload) ==
  [state EXCEPT !.isLoading = FALSE, !.user = payload.user, !.token = payload.token,
                !.refreshToken = payload.refreshToken, !.isAuthenticated = TRUE]

loginRejected(state, payload) ==
  [state EXCEPT !.isLoading = FALSE,
                !.error = IF payload \in {Null, ""} THEN "Login failed" ELSE payload]

registerPending(state) == [state EXCEPT !.isLoading = TRUE, !.error = Null]

registerFulfilled(state, payload) ==
  [state EXCEPT !.isLoading = FALSE, !.user = payload.user, !.token = payload.token,
                !.refreshToken = payload.refreshToken, !.isAuthenticated = TRUE]

registerRejected(state, payload) ==
  [state EXCEPT !.isLoading = FALSE,
                !.error = IF payload \in {Null, ""} THEN "Registration failed" ELSE payload]

logoutPending(state) == [state EXCEPT !.isLoading = TRUE]

logoutFulfilled_ClearsError(state) ==
  [state EXCEPT !.isLoading = FALSE, !.user = Null, !.token = Null,
                !.refreshToken = Null, !.isAuthenticated = FALSE, !.error = Null]

logoutFulfilled(state) ==
  [state EXCEPT !.isLoading = FALSE, !.user = Null, !.token = Null,
                !.refreshToken = Null, !.isAuthenticated = FALSE]

logoutRejected(state, payload) ==
  [state EXCEPT !.isLoading = FALSE,
                !.error = IF payload \in {Null, ""} THEN "Logout failed" ELSE payload]

\* ---------------------------------------------------------- example slice
Items == {"item1"}
ExampleErrors == {"example error"}

exampleInitialState ==
  [items |-> <<>>, selectedItem |-> Null, isLoading |-> FALSE, error |-> Null]

setSelectedItem(state, payload) == [state EXCEPT !.selectedItem = payload]

clearSelectedItem(state) == [state EXCEPT !.selectedItem = Null]

setError(state, payload) == [state EXCEPT !.error = payload]

exampleClearError(state) == [state EXCEPT !.error = Null]

\* ---------------------------------------------------------- redux-persist
\* persistConfig.whitelist: the slices persistReducer writes to persist:root
whitelist_All == {"auth", "example"}

whitelist == {"auth"}

\* What a flush writes for a slice of the root state.
Persisted(slice, value) == IF slice \in whitelist THEN <<value>> ELSE <<>>

\* ------------------------------------------------------------- api client
getErrorMessage_MessageFirst(error) ==
  IF error.axios
  THEN IF error.message \notin {Null, ""} THEN error.message
       ELSE IF error.body \notin {Null, ""} THEN error.body
       ELSE Fallback
  ELSE IF error.isError THEN error.message
  ELSE Fallback

getErrorMessage(error) ==
  IF error.axios
  THEN IF error.body \notin {Null, ""} THEN error.body
       ELSE IF error.message \notin {Null, ""} THEN error.message
       ELSE Fallback
  ELSE IF error.isError THEN error.message
  ELSE Fallback

\* retryCondition: isNetworkOrIdempotentRequestError(error) || status >= 500.
\* An error without a response is the network error; its status reads as 0.
retryCondition_AnyError(error) == error.status = 0 \/ error.status >= 400

retryCondition(error) == error.status = 0 \/ error.status >= 500

\* axios-retry's shouldRetry: retries left and the condition holds
shouldRetry(retryCount, error) == retryCount < MaxRetries /\ retryCondition(error)

\* The request interceptor: the header the config leaves with.
RequestInterceptor_KeepsHeader(hdr, storage) ==
  IF hdr # Null THEN hdr ELSE storage.auth_token

RequestInterceptor(hdr, storage) ==
  IF storage.auth_token \notin {Null, ""} THEN storage.auth_token ELSE hdr

\* The response interceptor's test for the refresh branch: a 401 on a config
\* that is not marked _retry.
ShouldRefresh_Unmarked(q, error) == error.status = 401

ShouldRefresh_Coalesced(q, error) ==
  /\ error.status = 401
  /\ ~q.retry
  /\ \A o \in Reqs : req[o].pc # "refreshing"

ShouldRefresh_AnyStatus(q, error) == error.status # 0 /\ ~q.retry

ShouldRefresh(q, error) == error.status = 401 /\ ~q.retry

\* if (refreshToken): the stored refresh token is a non-empty string.
HasRefreshToken_Always(storage) == TRUE

HasRefreshToken(storage) == storage.refresh_token \notin {Null, ""}

\* localStorage.setItem(auth_token, token) after the refresh call resolved
RefreshedStorage_NotStored(storage, token) == storage

RefreshedStorage(storage, token) == [storage EXCEPT !.auth_token = token]

IdleReq ==
  [pc |-> "idle", kind |-> "data", retry |-> FALSE, retryCount |-> 0,
   hdr |-> Null, err |-> NoError, refreshes |-> 0]

\* A settled promise: the value or error it settled with.  The config (kind,
\* header, retry state) is read by nothing once the promise has settled.
Settled(pc, q, error) ==
  [IdleReq EXCEPT !.pc = pc, !.err = error, !.refreshes = q.refreshes]

Payloads == [user : Users, token : Tokens, refreshToken : RTokens]

\* The session an earlier visit may have left in the browser.
StoredSession == [user |-> "u1", token |-> "t1", refreshToken |-> "r1"]

\* The thunk's pending reducer, run when the thunk is dispatched.
Pending(kind, state) ==
  IF kind = "login" THEN loginPending(state)
  ELSE IF kind = "register" THEN registerPending(state)
  ELSE IF kind = "logout" THEN logoutPending(state)
  ELSE state

\* The thunk's fulfilled reducer, run when the request's promise resolves.
Fulfilled(kind, state, payload) ==
  IF kind = "login" THEN loginFulfilled(state, payload)
  ELSE IF kind = "register" THEN registerFulfilled(state, payload)
  ELSE IF kind = "logout" THEN logoutFulfilled(state)
  ELSE state

\* localStorage after the fulfilled reducer
FulfilledStorage(kind, storage, payload) ==
  IF kind \in {"login", "register"} THEN PersistTokens(storage, payload)
  ELSE IF kind = "logout" THEN ClearTokens(storage)
  ELSE storage

\* The thunk's rejected reducer with rejectWithValue(getErrorMessage(error)).
Rejected(kind, state, error) ==
  IF kind = "login" THEN loginRejected(state, getErrorMessage(error))
  ELSE IF kind = "register" THEN registerRejected(state, getErrorMessage(error))
  ELSE IF kind = "logout" THEN logoutRejected(state, getErrorMessage(error))
  ELSE state

\* A login or registration that succeeded ends the forced logout.
LoggedOutAfter(kind, flag) == IF kind \in {"login", "register"} THEN FALSE ELSE flag

\* ------------------------------------------------------------------ router
Paths          == {"/", "/example", "/login", "/register", "/missing"}
ProtectedPaths == {"/", "/example"}
PublicPaths    == {"/login", "/register"}
ProtectedPages == {"HomePage", "ExamplePage"}

\* The lazily loaded page a route's element wraps.
Page(path) ==
  IF path = "/" THEN "HomePage"
  ELSE IF path = "/example" THEN "ExamplePage"
  ELSE IF path = "/login" THEN "LoginPage"
  ELSE IF path = "/register" THEN "RegisterPage"
  ELSE "NotFoundPage"

\* What <ProtectedRoute requireAuth> returns at location loc wrapping children.
ProtectedRoute_NoAuthRedirect(children, requireAuth, state, loc) ==
  IF state.isLoading
  THEN [type |-> "LoadingScreen", to |-> Null, from |-> Null]
  ELSE IF ~requireAuth /\ state.isAuthenticated
  THEN [type |-> "Navigate", to |-> "/", from |-> Null]
  ELSE [type |-> children, to |-> Null, from |-> Null]

ProtectedRoute_NoPublicRedirect(children, requireAuth, state, loc) ==
  IF state.isLoading
  THEN [type |-> "LoadingScreen", to |-> Null, from |-> Null]
  ELSE IF requireAuth /\ ~state.isAuthenticated
  THEN [type |-> "Navigate", to |-> "/login", from |-> loc]
  ELSE [type |-> children, to |-> Null, from |-> Null]

ProtectedRoute(children, requireAuth, state, loc) ==
  IF state.isLoading
  THEN [type |-> "LoadingScreen", to |-> Null, from |-> Null]
  ELSE IF requireAuth /\ ~state.isAuthenticated
  THEN [type |-> "Navigate", to |-> "/login", from |-> loc]
  ELSE IF ~requireAuth /\ state.isAuthenticated
  THEN [type |-> "Navigate", to |-> "/", from |-> Null]
  ELSE [type |-> children, to |-> Null, from |-> Null]

\* ------------------------------------------------------------ query layer
QueryRetry    == 1                 \* queries: { retry: 1 }
MutationRetry == 1                 \* mutations: { retry: 1 }

\* The query: its status, the retryer's failureCount, and two counts kept for
\* the record: how often queryFn was run and how many HTTP attempts its
\* requests made; serverErrorsOnly says every attempt so far failed with a
\* status >= 500.
IdleQuery ==
  [status |-> "idle", failureCount |-> 0, runs |-> 0, attempts |-> 0,
   serverErrorsOnly |-> TRUE]

\* The retryer runs queryFn again while failureCount is below retry.
queryShouldRetry_Inclusive(failureCount) == failureCount <= QueryRetry

queryShouldRetry(failureCount) == failureCount < QueryRetry

\* queryFn is called: it sends a request through the api client.
QueryStart(q) ==
  [q EXCEPT !.status = "fetching", !.runs = @ + 1, !.attempts = @ + 1]

\* axios-retry or the response interceptor sends the query's request again.
QueryAttempt(kind, q) ==
  IF kind = "query" THEN [q EXCEPT !.attempts = @ + 1] ELSE q

\* An attempt of the query's request failed with error.
QueryFailed(kind, q, error) ==
  IF kind = "query"
  THEN [q EXCEPT !.serverErrorsOnly = @ /\ error.status >= 500]
  ELSE q

\* queryFn's promise resolved.
QueryFulfilled(kind, q) ==
  IF kind = "query" THEN [q EXCEPT !.status = "success"] ELSE q

\* queryFn's promise rejected: retry after the delay, or give up.
QueryRejected(kind, q) ==
  IF kind # "query" THEN q
  ELSE IF queryShouldRetry(q.failureCount)
  THEN [q EXCEPT !.status = "waiting", !.failureCount = @ + 1]
  ELSE [q EXCEPT !.status = "error", !.failureCount = @ + 1]

Ids     == {"1", "list"}           \* item ids
Filters == {"active", "detail"}    \* filter strings

\* An element of a query key: a string, or the object { filters }.
Str(s) == <<"string", s>>
FiltersObject(filters) == <<"object", filters>>

exampleKeysAll == <<Str("example")>>
exampleKeysLists == exampleKeysAll \o <<Str("list")>>
exampleKeysList(filters) == exampleKeysLists \o <<FiltersObject(filters)>>
exampleKeysDetails_Flat == exampleKeysAll

exampleKeysDetails == exampleKeysAll \o <<Str("detail")>>
exampleKeysDetail(id) == exampleKeysDetails \o <<Str(id)>>

ListKeys   == {exampleKeysLists} \cup {exampleKeysList(f) : f \in Filters}
DetailKeys == {exampleKeysDetail(id) : id \in Ids}
QueryKeys  == ListKeys \cup DetailKeys

\* invalidateQueries({ queryKey }) matches the queries whose key starts with
\* queryKey, element by element.
partialMatchKey(queryKey, key) ==
  /\ Len(key) <= Len(queryKey)
  /\ \A i \in 1..Len(key) : queryKey[i] = key[i]

invalidateQueries(c, key) ==
  [k \in DOMAIN c |->
     IF c[k] # "absent" /\ partialMatchKey(k, key) THEN "invalidated" ELSE c[k]]

\* onSuccess of the three mutation hooks; data is what mutationFn resolved with
\* (the item the server returned: it carries the id of the request).
createOnSuccess(c) == invalidateQueries(c, exampleKeysLists)

updateOnSuccess_ListOnly(c, data) == invalidateQueries(c, exampleKeysLists)

updateOnSuccess(c, data) ==
  invalidateQueries(invalidateQueries(c, exampleKeysLists), exampleKeysDetail(data.id))

deleteOnSuccess(c) == invalidateQueries(c, exampleKeysLists)

OnSuccess(kind, c, data) ==
  IF kind = "create" THEN createOnSuccess(c)
  ELSE IF kind = "update" THEN updateOnSuccess(c, data)
  ELSE deleteOnSuccess(c)

MutationKinds == {"create", "update", "delete"}

IdleMutation == [pc |-> "idle", kind |-> "create", id |-> Null, failureCount |-> 0]

\* ---------------------------------------------------------- ErrorBoundary
\* What a descendant may throw while rendering: an Error, named here by its
\* message, which may be empty.
Thrown == {"Test error", ""}

\* constructor: this.state
boundaryInitialState == [hasError |-> FALSE, error |-> Null]

getDerivedStateFromError(error) == [hasError |-> TRUE, error |-> error]

\* handleReset's setState
handleReset(state) == [state EXCEPT !.hasError = FALSE, !.error = Null]

\* render(): the fallback card (no fallback prop is passed) or the children
ErrorBoundaryRender_Children(state, children) == children

ErrorBoundaryRender(state, children) ==
  IF state.hasError THEN "ErrorFallback" ELSE children

\* <Routes>: the element of the route that matches loc.
App(loc, state) ==
  IF loc \in PublicPaths THEN ProtectedRoute(Page(loc), FALSE, state, loc)
  ELSE IF loc \in ProtectedPaths THEN ProtectedRoute(Page(loc), TRUE, state, loc)
  ELSE [type |-> "NotFoundPage", to |-> Null, from |-> Null]

\* MainLayout.handleLogout: await logout(); navigate('/login') -- whichever way
\* the logout thunk settled.  Other requests leave the router alone.
AfterSettle(kind) ==
  IF kind = "logout"
  THEN /\ location' = "/login"
       /\ from' = Null
       /\ rendered' = "pending"
  ELSE UNCHANGED routeVars

\* ------------------------------------------------------------- operations
\* The page has loaded and PersistGate has rehydrated the store: either a
\* browser without a session, or one that holds the session of an earlier login
\* (its tokens in localStorage, its auth slice restored from persist:root).
Init ==
  /\ \/ /\ ls = EmptyStorage
        /\ auth = initialState(EmptyStorage)
        /\ persisted = <<>>
     \/ /\ ls = PersistTokens(EmptyStorage, StoredSession)
        /\ auth = loginFulfilled(initialState(ls), StoredSession)
        /\ persisted = <<auth>>
  /\ req = [r \in Reqs |-> IdleReq]
  /\ sent = 0
  /\ href = Null
  /\ loggedOut = FALSE
  /\ location = "/"
  /\ from = Null
  /\ rendered = "pending"
  /\ example = exampleInitialState
  /\ persistedExample = <<>>
  /\ boundary = boundaryInitialState
  /\ cache = [k \in QueryKeys |-> "absent"]
  /\ mutation = IdleMutation
  /\ logged = Null
  /\ query = IdleQuery

\* A component calls the api client (kind "data") or dispatches an auth thunk:
\* the pending reducer runs, the request interceptor stamps the config, and
\* the request is sent.  It takes the lowest slot in which no request is under
\* way: slots carry no meaning of their own.
Send(r, kind) ==
  /\ req[r].pc \in {"idle", "done", "rejected"}
  /\ \A o \in Reqs : o < r => req[o].pc \notin {"idle", "done", "rejected"}
  /\ sent < MaxSends
  /\ sent' = sent + 1
  /\ auth' = Pending(kind, auth)
  /\ req' = [req EXCEPT ![r] = [IdleReq EXCEPT !.pc = "inflight", !.kind = kind,
                                               !.hdr = RequestInterceptor(Null, ls)]]
  /\ UNCHANGED <<ls, persisted, href, loggedOut, query>>
  /\ UNCHANGED routeVars
  /\ UNCHANGED otherVars

\* The query's retryer calls queryFn (the first run, or the retry once its
\* delay has passed): exampleService sends a GET through the api client.
QueryFetch(r) ==
  /\ query.status \in {"idle", "waiting"}
  /\ req[r].pc \in {"idle", "done", "rejected"}
  /\ \A o \in Reqs : o < r => req[o].pc \notin {"idle", "done", "rejected"}
  /\ query' = QueryStart(query)
  /\ req' = [req EXCEPT ![r] = [IdleReq EXCEPT !.pc = "inflight", !.kind = "query",
                                               !.hdr = RequestInterceptor(Null, ls)]]
  /\ UNCHANGED <<ls, persisted, auth, sent, href, loggedOut>>
  /\ UNCHANGED routeVars
  /\ UNCHANGED otherVars

\* The request's promise resolves: response interceptor passes the response
\* through, the service returns response.data and the thunk dispatches fulfilled.
\* (payload is response.data of a login or registration.)
ResponseOk(r, payload) ==
  /\ req[r].pc = "inflight"
  /\ auth' = Fulfilled(req[r].kind, auth, payload)
  /\ ls' = FulfilledStorage(req[r].kind, ls, payload)
  /\ req' = [req EXCEPT ![r] = Settled("done", req[r], NoError)]
  /\ loggedOut' = LoggedOutAfter(req[r].kind, loggedOut)
  /\ AfterSettle(req[r].kind)
  /\ query' = QueryFulfilled(req[r].kind, query)
  /\ UNCHANGED <<persisted, sent, href>>
  /\ UNCHANGED otherVars

\* The promise of request r rejects with error: the thunk dispatches rejected.
RejectWith(r, error) ==
  /\ req' = [req EXCEPT ![r] = Settled("rejected", req[r], error)]
  /\ auth' = Rejected(req[r].kind, auth, error)
  /\ AfterSettle(req[r].kind)
  /\ query' = QueryRejected(req[r].kind, QueryFailed(req[r].kind, query, error))

\* An attempt fails with error (a response with an error status, or no response).
\* axios-retry's handler comes first in the response chain; what it does not
\* retry reaches the response interceptor of api.ts.
ResponseError(r, error) ==
  /\ req[r].pc = "inflight"
  /\ IF shouldRetry(req[r].retryCount, error)
     THEN /\ req' = [req EXCEPT ![r].pc = "retryWait", ![r].retryCount = @ + 1]
          /\ query' = QueryFailed(req[r].kind, query, error)
          /\ UNCHANGED <<auth, ls>>
          /\ UNCHANGED routeVars
     ELSE IF ShouldRefresh(req[r], error)
     THEN IF HasRefreshToken(ls)
          THEN \* axios.post(.../auth/refresh) is awaited
               /\ req' = [req EXCEPT ![r].pc = "refreshing", ![r].retry = TRUE,
                                     ![r].refreshes = @ + 1]
               /\ query' = QueryFailed(req[r].kind, query, error)
               /\ UNCHANGED <<auth, ls>>
               /\ UNCHANGED routeVars
          ELSE /\ RejectWith(r, error)
               /\ UNCHANGED ls
     ELSE /\ RejectWith(r, error)
          /\ UNCHANGED ls
  /\ UNCHANGED <<persisted, sent, href, loggedOut>>
  /\ UNCHANGED otherVars

\* axios-retry's timer fires: the same config goes through the instance again,
\* request interceptor included.
RetryFire(r) ==
  /\ req[r].pc = "retryWait"
  /\ req' = [req EXCEPT ![r].pc = "inflight", ![r].hdr = RequestInterceptor(@, ls)]
  /\ query' = QueryAttempt(req[r].kind, query)
  /\ UNCHANGED <<ls, persisted, auth, sent, href, loggedOut>>
  /\ UNCHANGED routeVars
  /\ UNCHANGED otherVars

\* The refresh call resolves with a token: it is stored, put on the original
\* request, and the original request is replayed through the instance.
RefreshOk(r, token) ==
  /\ req[r].pc = "refreshing"
  /\ ls' = RefreshedStorage(ls, token)
  /\ req' = [req EXCEPT ![r].pc = "inflight", ![r].hdr = RequestInterceptor(token, ls')]
  /\ query' = QueryAttempt(req[r].kind, query)
  /\ UNCHANGED <<persisted, auth, sent, href, loggedOut>>
  /\ UNCHANGED routeVars
  /\ UNCHANGED otherVars

\* The refresh call rejects: the catch block of the response interceptor.
RefreshFail(r, refreshError) ==
  /\ req[r].pc = "refreshing"
  /\ ls' = ClearTokens(ls)
  /\ href' = "/login"
  /\ RejectWith(r, refreshError)
  /\ loggedOut' = TRUE
  /\ UNCHANGED <<persisted, sent>>
  /\ UNCHANGED otherVars

\* redux-persist writes the whitelisted slice to persist:root on a timer after
\* the store changed.
Flush ==
  /\ <<persisted, persistedExample>> # <<Persisted("auth", auth), Persisted("example", example)>>
  /\ persisted' = Persisted("auth", auth)
  /\ persistedExample' = Persisted("example", example)
  /\ UNCHANGED <<ls, auth, req, sent, href, loggedOut, query, example>>
  /\ UNCHANGED <<routeVars, boundaryVars, cacheVars>>

\* REHYDRATE: the persisted auth slice replaces the slice built by initialState.
Rehydrate(stored, storage) ==
  IF stored = <<>> THEN initialState(storage) ELSE stored[1]

RehydrateExample(stored) ==
  IF stored = <<>> THEN exampleInitialState ELSE stored[1]

\* The document is loaded anew (a reload, or the navigation the interceptor
\* started): requests in flight are dropped and the store is built again.
PageLoad ==
  /\ auth' = Rehydrate(persisted, ls)
  /\ req' = [r \in Reqs |-> IdleReq]
  /\ href' = Null
  /\ location' = IF href # Null THEN href ELSE location
  /\ from' = Null
  /\ rendered' = "pending"
  /\ example' = RehydrateExample(persistedExample)
  /\ boundary' = boundaryInitialState
  /\ cache' = [k \in QueryKeys |-> "absent"]
  /\ mutation' = IdleMutation
  /\ query' = IdleQuery
  /\ UNCHANGED logged
  /\ UNCHANGED <<ls, persisted, sent, loggedOut, persistedExample>>

\* The user follows a link to path.
Visit(path) ==
  /\ path # location
  /\ location' = path
  /\ from' = Null
  /\ rendered' = "pending"
  /\ UNCHANGED apiVars
  /\ UNCHANGED otherVars

\* React renders the routes inside the ErrorBoundary: the element of the
\* matched route; a <Navigate> moves the router, anything else is put on screen.
Render ==
  LET element == App(location, auth) IN
  /\ ErrorBoundaryRender(boundary, "children") = "children"
  /\ IF element.type = "Navigate"
     THEN /\ location' = element.to
          /\ from' = element.from
          /\ rendered' = "Navigate"
     ELSE /\ rendered' = element.type
          /\ UNCHANGED <<location, from>>
  /\ UNCHANGED apiVars
  /\ UNCHANGED otherVars

\* A descendant of the ErrorBoundary throws while React renders the routes:
\* getDerivedStateFromError gives the next state and the boundary is rendered
\* again in the same pass.
Throw(error) ==
  /\ ErrorBoundaryRender(boundary, "children") = "children"
  /\ boundary' = getDerivedStateFromError(error)
  /\ rendered' = ErrorBoundaryRender(boundary', "children")
  /\ UNCHANGED <<apiVars, storeVars, cacheVars, location, from>>

\* The boundary is rendered again while it holds an error (the router moved).
RenderFallback ==
  /\ ErrorBoundaryRender(boundary, "children") = "ErrorFallback"
  /\ rendered # "ErrorFallback"
  /\ rendered' = "ErrorFallback"
  /\ UNCHANGED <<apiVars, storeVars, boundaryVars, cacheVars, location, from>>

\* "Try Again": handleReset; the children are rendered by the next pass.
HandleReset ==
  /\ rendered = "ErrorFallback"
  /\ boundary' = handleReset(boundary)
  /\ rendered' = "pending"
  /\ UNCHANGED <<apiVars, storeVars, cacheVars, location, from>>

\* "Go Home": window.location.href = '/' starts a page load.
GoHome ==
  /\ rendered = "ErrorFallback"
  /\ href' = "/"
  /\ UNCHANGED <<ls, persisted, auth, req, sent, loggedOut, query>>
  /\ UNCHANGED <<storeVars, boundaryVars, cacheVars, routeVars>>

\* A component mounts a query under key and its first fetch succeeds.
Observe(key) ==
  /\ cache[key] = "absent"
  /\ cache' = [cache EXCEPT ![key] = "fresh"]
  /\ UNCHANGED <<apiVars, routeVars, storeVars, boundaryVars, mutation, logged>>

\* An invalidated query has been fetched again.
Refetch(key) ==
  /\ cache[key] = "invalidated"
  /\ cache' = [cache EXCEPT ![key] = "fresh"]
  /\ UNCHANGED <<apiVars, routeVars, storeVars, boundaryVars, mutation, logged>>

\* mutate(variables) of useCreateExampleItem, useUpdateExampleItem or
\* useDeleteExampleItem: mutationFn is called.
Mutate(kind, id) ==
  /\ mutation.pc # "pending"
  /\ (kind = "create") = (id = Null)
  /\ mutation' = [pc |-> "pending", kind |-> kind, id |-> id, failureCount |-> 0]
  /\ UNCHANGED <<apiVars, routeVars, storeVars, boundaryVars, cache, logged>>

\* mutationFn resolves: onSuccess runs.
MutationSuccess ==
  /\ mutation.pc = "pending"
  /\ cache' = OnSuccess(mutation.kind, cache, [id |-> mutation.id])
  /\ mutation' = [mutation EXCEPT !.pc = "success"]
  /\ UNCHANGED <<apiVars, routeVars, storeVars, boundaryVars, logged>>

\* mutationFn rejects with error: it is run again while retries are left, then
\* onError logs getErrorMessage(error).
MutationFailure(error) ==
  /\ mutation.pc = "pending"
  /\ IF mutation.failureCount < MutationRetry
     THEN /\ mutation' = [mutation EXCEPT !.failureCount = @ + 1]
          /\ UNCHANGED logged
     ELSE /\ mutation' = [mutation EXCEPT !.pc = "error", !.failureCount = @ + 1]
          /\ logged' = getErrorMessage(error)
  /\ UNCHANGED <<apiVars, routeVars, storeVars, boundaryVars, cache>>

\* A component dispatches one of the example slice's actions.
SetSelectedItem(item) ==
  /\ example' = setSelectedItem(example, item)
  /\ example' # example
  /\ UNCHANGED <<apiVars, routeVars, persistedExample, boundaryVars, cacheVars>>

ClearSelectedItem ==
  /\ example' = clearSelectedItem(example)
  /\ example' # example
  /\ UNCHANGED <<apiVars, routeVars, persistedExample, boundaryVars, cacheVars>>

SetError(message) ==
  /\ example' = setError(example, message)
  /\ example' # example
  /\ UNCHANGED <<apiVars, routeVars, persistedExample, boundaryVars, cacheVars>>

ExampleClearError ==
  /\ example' = exampleClearError(example)
  /\ example' # example
  /\ UNCHANGED <<apiVars, routeVars, persistedExample, boundaryVars, cacheVars>>

\* The api client with its requests in the slots of R.
ApiStep(R) ==
  \/ \E r \in R, k \in Kinds : Send(r, k)
  \/ \E r \in R, p \in Payloads : ResponseOk(r, p)
  \/ \E r \in R, e \in Errors : ResponseError(r, e)
  \/ \E r \in R : RetryFire(r)
  \/ \E r \in R, t \in Tokens : RefreshOk(r, t)
  \/ \E r \in R, e \in Errors : RefreshFail(r, e)

\* dispatch(setCredentials(payload)): the reducer and its localStorage writes.
SetCredentials(payload) ==
  /\ auth' = setCredentials(auth, payload)
  /\ ls' = PersistTokens(ls, payload)
  /\ UNCHANGED <<persisted, req, sent, href, loggedOut, query>>
  /\ UNCHANGED routeVars
  /\ UNCHANGED otherVars

\* dispatch(clearCredentials()) (useAuth.forceLogout)
ClearCredentials ==
  /\ auth' = clearCredentials(auth)
  /\ ls' = ClearTokens(ls)
  /\ UNCHANGED <<persisted, req, sent, href, loggedOut, query>>
  /\ UNCHANGED routeVars
  /\ UNCHANGED otherVars

\* dispatch(clearError()) (useAuth.clearAuthError)
ClearError ==
  /\ auth' = clearError(auth)
  /\ UNCHANGED <<ls, persisted, req, sent, href, loggedOut, query>>
  /\ UNCHANGED routeVars
  /\ UNCHANGED otherVars

\* The lifecycle actions of the three thunks, dispatched in any order.
ThunkPending(kind) ==
  /\ auth' = Pending(kind, auth)
  /\ UNCHANGED <<ls, persisted, req, sent, href, loggedOut, query>>
  /\ UNCHANGED routeVars
  /\ UNCHANGED otherVars

ThunkFulfilled(kind, payload) ==
  /\ auth' = Fulfilled(kind, auth, payload)
  /\ ls' = FulfilledStorage(kind, ls, payload)
  /\ UNCHANGED <<persisted, req, sent, href, loggedOut, query>>
  /\ UNCHANGED routeVars
  /\ UNCHANGED otherVars

ThunkRejected(kind, error) ==
  /\ auth' = Rejected(kind, auth, error)
  /\ UNCHANGED <<ls, persisted, req, sent, href, loggedOut, query>>
  /\ UNCHANGED routeVars
  /\ UNCHANGED otherVars

\* The api client and the auth slice under concurrent requests.
Next == ApiStep(Reqs)

Spec == Init /\ [][Next]_vars

\* The whole page, one request at a time: the api client, the auth slice,
\* redux-persist, page loads and the router.
NextApp ==
  \/ ApiStep({1})
  \/ Flush
  \/ PageLoad
  \/ \E p \in Paths : Visit(p)
  \/ Render

SpecApp == Init /\ [][NextApp]_vars

\* The store: both slices, redux-persist and page loads, with one request at a
\* time changing the auth slice.
NextStore ==
  \/ ApiStep({1})
  \/ \E i \in Items \cup {Null} : SetSelectedItem(i)
  \/ ClearSelectedItem
  \/ \E m \in ExampleErrors : SetError(m)
  \/ ExampleClearError
  \/ Flush
  \/ PageLoad

SpecStore == Init /\ [][NextStore]_vars

\* The routes under the ErrorBoundary: rendering, rendering errors, the two
\* buttons of the fallback, navigation and page loads.
NextBoundary ==
  \/ \E p \in Paths : Visit(p)
  \/ Render
  \/ \E e \in Thrown : Throw(e)
  \/ RenderFallback
  \/ HandleReset
  \/ GoHome
  \/ PageLoad

SpecBoundary == Init /\ [][NextBoundary]_vars

\* The query cache under the three mutation hooks.
NextQuery ==
  \/ \E k \in QueryKeys : Observe(k)
  \/ \E k \in QueryKeys : Refetch(k)
  \/ \E kind \in MutationKinds, id \in Ids \cup {Null} : Mutate(kind, id)
  \/ MutationSuccess
  \/ \E e \in ErrorValues : MutationFailure(e)

SpecQuery == Init /\ [][NextQuery]_vars

\* The auth slice under any sequence of its actions, in a store that
\* redux-persist writes out and that a page load builds again (initialState
\* from localStorage, then the rehydrated slice).
NextSlice ==
  \/ \E p \in Payloads : SetCredentials(p)
  \/ ClearCredentials
  \/ ClearError
  \/ \E k \in Kinds \ {"data"} : ThunkPending(k)
  \/ \E k \in Kinds \ {"data"}, p \in Payloads : ThunkFulfilled(k, p)
  \/ \E k \in Kinds \ {"data"}, e \in Errors : ThunkRejected(k, e)
  \/ Flush
  \/ PageLoad

SpecSlice == Init /\ [][NextSlice]_vars

\* A query of the shared queryClient over the api client, next to the
\* application's other calls.
NextFetch ==
  \/ QueryFetch(1)
  \/ ApiStep({1})

SpecFetch == Init /\ [][NextFetch]_vars
\* ------------------------------------------------------------------ claims

C2_EachRequestRefreshes ==
  [][\A r \in Reqs :
       (req[r].pc = "inflight" /\ ~req[r].retry /\ ls.refresh_token # Null)
         => \A e \in Errors :
              (e.status = 401 /\ ResponseError(r, e))
                => /\ req'[r].pc = "refreshing"
                   /\ req'[r].refreshes = req[r].refreshes + 1]_vars

\* C2 witness: both requests have a refresh call of their own in flight.
C2_Witness ==
  \A r \in Reqs : req[r].pc = "refreshing" /\ req[r].refreshes = 1

\* C3: after a token refresh failed and until a login succeeds, no protected
\* route renders its children.
C3_LoggedOutAfterRefreshFailure ==
  [][(Render /\ loggedOut) => rendered' \notin ProtectedPages]_vars

\* C4: when the refresh call fails, both tokens are removed from localStorage,
\* the browser is sent to /login, and the caller's promise rejects with the
\* refresh error.
C4_RefreshFailureClearsAndRejects ==
  [][\A r \in Reqs, e \in Errors :
       RefreshFail(r, e)
         => /\ ls'.auth_token = Null
            /\ ls'.refresh_token = Null
            /\ href' = "/login"
            /\ req'[r].pc = "rejected"
            /\ req'[r].err = e]_vars

\* C4 witness: a request was rejected with a refresh error that is not a 401,
\* the tokens are gone and the navigation to /login is pending.
C4_Witness ==
  \E r \in Reqs :
    /\ req[r].pc = "rejected" /\ req[r].refreshes = 1 /\ req[r].err.status = 500
    /\ ls = EmptyStorage
    /\ href = "/login"

\* C5: when the refresh call succeeds with token T, T is in localStorage under
\* the auth-token key when the original request is replayed, and the replayed
\* request carries Authorization: Bearer T.
C5_ReplayCarriesRefreshedToken ==
  [][\A r \in Reqs, t \in Tokens :
       RefreshOk(r, t)
         => /\ ls'.auth_token = t
            /\ req'[r].pc = "inflight"
            /\ req'[r].hdr = t]_vars

\* C5 witness: a replayed request is in flight with a token that differs from
\* the one the session started with.
C5_Witness ==
  \E r \in Reqs :
    /\ req[r].pc = "inflight" /\ req[r].refreshes = 1
    /\ req[r].hdr = "t2" /\ ls.auth_token = "t2" /\ auth.token = "t1"

\* C6: a request leaves with Authorization: Bearer <the token stored at that
\* moment> whenever a token is stored; when none is stored the interceptor
\* adds no header (a first attempt has none, a retry keeps what its config had).
C6_BearerOfStoredToken ==
  [][\A r \in Reqs :
       (req[r].pc # "inflight" /\ req'[r].pc = "inflight")
         => IF ls'.auth_token # Null
            THEN req'[r].hdr = ls'.auth_token
            ELSE req'[r].hdr = (IF req[r].pc = "retryWait" THEN req[r].hdr ELSE Null)]_vars

\* C6 witness: a retried attempt is in flight with the token of a login that
\* happened after its first attempt.
C6_Witness ==
  \E r \in Reqs :
    /\ req[r].pc = "inflight" /\ req[r].retryCount > 0 /\ req[r].refreshes = 0
    /\ req[r].hdr = "t2" /\ ls.auth_token = "t2"

C8_ProtectedRouteGuards ==
  [][(Render /\ location \in ProtectedPaths /\ ~auth.isAuthenticated)
       => /\ rendered' \notin ProtectedPages
          /\ IF auth.isLoading
             THEN rendered' = "LoadingScreen" /\ location' = location
             ELSE rendered' = "Navigate" /\ location' = "/login" /\ from' = location]_vars

\* C8 witness: an unauthenticated visit of /example was redirected to /login,
\* which remembers /example.
C8_Witness ==
  /\ ~auth.isAuthenticated
  /\ location = "/login" /\ from = "/example" /\ rendered = "Navigate"

\* C9: an authenticated user (isLoading false) who visits /login or /register
\* is redirected to "/" and the login or register page is not rendered.
C9_AuthenticatedLeavesAuthPages ==
  [][(Render /\ location \in PublicPaths /\ auth.isAuthenticated /\ ~auth.isLoading)
       => /\ location' = "/"
          /\ rendered' \notin {"LoginPage", "RegisterPage"}]_vars

\* C9 witness: an authenticated user was redirected to "/" (only the public
\* routes redirect there).
C9_Witness ==
  /\ auth.isAuthenticated /\ ~auth.isLoading
  /\ location = "/" /\ rendered = "Navigate"

\* C10: when loginUser or registerUser is fulfilled with {user, token,
\* refreshToken}, the auth slice has isAuthenticated = true, isLoading = false
\* and the response's user, token and refreshToken, and localStorage holds
\* that token and that refreshToken.
C10_LoginFulfilled ==
  [][\A r \in Reqs, p \in Payloads :
       (ResponseOk(r, p) /\ req[r].kind \in {"login", "register"})
         => /\ auth'.isAuthenticated /\ ~auth'.isLoading
            /\ auth'.user = p.user
            /\ auth'.token = p.token
            /\ auth'.refreshToken = p.refreshToken
            /\ ls'.auth_token = p.token
            /\ ls'.refresh_token = p.refreshToken]_vars

\* C10 witness: a login made without a stored session was fulfilled.
C10_Witness ==
  /\ auth.isAuthenticated /\ ~auth.isLoading
  /\ auth.user = "u1" /\ auth.token = "t2" /\ auth.refreshToken = "r1"
  /\ ls = [auth_token |-> "t2", refresh_token |-> "r1"]
  /\ \E r \in Reqs : req[r].pc = "done"

\* C11: when the server answers a login made by a visitor who is not
\* authenticated with status 401 and a body message, loginUser is rejected:
\* the slice's error becomes that message, isLoading becomes false, and
\* isAuthenticated, user, token and refreshToken are unchanged.
C11_LoginRejectedWithServerMessage ==
  [][\A r \in Reqs :
       (req[r].pc = "inflight" /\ req[r].kind = "login" /\ ~auth.isAuthenticated)
         => \A e \in Errors :
              (e.status = 401 /\ e.body # Null /\ ResponseError(r, e))
                => /\ req'[r].pc = "rejected"
                   /\ auth' = [auth EXCEPT !.error = e.body, !.isLoading = FALSE]]_vars

\* C12: only the auth slice is persisted.  No step writes the example slice to
\* persist:root, a flush writes the auth slice as it is, and a page load leaves
\* the example slice in its initial state and the auth slice at the value that
\* was persisted last.
C12_OnlyAuthPersisted ==
  [][/\ persistedExample' = <<>>
     /\ Flush => persisted' = <<auth>>
     /\ PageLoad => /\ example' = exampleInitialState
                    /\ persisted # <<>> => auth' = persisted[1]]_vars

\* C12 witness: the page was loaded again after a login of this run had been
\* flushed: the auth slice is the persisted one, the example slice is initial.
C12_Witness ==
  /\ sent = 1 /\ req[1].pc = "idle"
  /\ auth.isAuthenticated /\ auth.token = "t2" /\ persisted = <<auth>>
  /\ example = exampleInitialState /\ persistedExample = <<>>

\* C13 (as stated): once a descendant throws during rendering the ErrorBoundary
\* holds the error and renders the fallback instead of its children, and it
\* leaves the error state by handleReset only; hasError is true exactly when an
\* error is held.
C13_StaysUntilReset ==
  [][/\ (\E e \in Thrown : Throw(e))
          => boundary'.hasError /\ rendered' = "ErrorFallback"
     /\ boundary.hasError => rendered' \in {"ErrorFallback", "pending"}
     /\ (boundary.hasError /\ ~boundary'.hasError) => HandleReset
     /\ boundary'.hasError <=> boundary'.error # Null]_vars

\* C13 (amended): as above, but the error state is left by handleReset or by a
\* page load, which builds the boundary anew ("Go Home" starts one).
C13_StaysUntilResetOrPageLoad ==
  [][/\ (\E e \in Thrown : Throw(e))
          => boundary'.hasError /\ rendered' = "ErrorFallback"
     /\ boundary.hasError => rendered' \in {"ErrorFallback", "pending"}
     /\ (boundary.hasError /\ ~boundary'.hasError) => (HandleReset \/ PageLoad)
     /\ boundary'.hasError <=> boundary'.error # Null]_vars

\* C13 witness: the boundary holds an error, shows the fallback, and the router
\* has moved to another route since without the children coming back.
C13_Witness ==
  /\ boundary.hasError /\ boundary.error = "Test error"
  /\ rendered = "ErrorFallback" /\ location = "/example"

\* C14: an attempt that fails with an error whose status is not 401 starts no
\* refresh call, changes no stored token and sets no redirect; once it is not
\* retried any more (a 4xx status, or the third retry was made) the caller's
\* promise rejects with that same error.
\* (Per step of a request: the step has these effects, or it is not the
\* handling of such an error.)
C14_OtherErrorsPassThrough ==
  [][\A r \in Reqs :
       (req[r].pc = "inflight" /\ req'[r] # req[r])
         => \A e \in Errors :
              \/ e.status = 401
              \/ /\ ls' = ls
                 /\ href' = href
                 /\ req'[r].pc # "refreshing"
                 /\ req'[r].refreshes = req[r].refreshes
                 /\ (e.status \in 400..499 \/ req[r].retryCount = 3)
                      => (req'[r].pc = "rejected" /\ req'[r].err = e)
              \/ ~ResponseError(r, e)]_vars

\* C14 witness: with a session stored, a request was rejected with the 500 of
\* its last attempt: no refresh was made, the tokens are in place, no redirect.
C14_Witness ==
  \E r \in Reqs :
    /\ req[r].pc = "rejected" /\ req[r].err = AxiosError(500, ServerMessage)
    /\ req[r].refreshes = 0
    /\ ls = [auth_token |-> "t1", refresh_token |-> "r1"]
    /\ href = Null

\* C15: when a create, update or delete mutation succeeds, the items-list
\* query is invalidated, and when an update succeeds the detail query of the
\* updated item's id is invalidated as well; a mutation whose mutationFn fails
\* invalidates no query.
C15_MutationsInvalidate ==
  [][/\ MutationSuccess
          => /\ cache[exampleKeysLists] # "absent"
                  => cache'[exampleKeysLists] = "invalidated"
             /\ (mutation.kind = "update" /\ cache[exampleKeysDetail(mutation.id)] # "absent")
                  => cache'[exampleKeysDetail(mutation.id)] = "invalidated"
     /\ (\E e \in ErrorValues : MutationFailure(e)) => cache' = cache]_vars

\* C15 witness: an update of item "1" succeeded on its second run, with the
\* list query and both detail queries fresh before it.
C15_Witness ==
  /\ mutation = [pc |-> "success", kind |-> "update", id |-> "1", failureCount |-> 1]
  /\ cache[exampleKeysLists] = "invalidated"
  /\ cache[exampleKeysDetail("1")] = "invalidated"
  /\ cache[exampleKeysDetail("list")] = "fresh"

\* C16: the query keys are hierarchical.  all is a prefix of every key, lists()
\* of every list(filters) key, details() of every detail(id) key; no list key
\* is a prefix of a detail key or the reverse; so invalidating lists() marks
\* every cached list query and leaves every detail query as it is.
C16_KeysHierarchical ==
  LET IsPrefix(a, b) == Len(a) <= Len(b) /\ SubSeq(b, 1, Len(a)) = a
      invalidated == invalidateQueries(cache, exampleKeysLists)
  IN  /\ \A k \in QueryKeys \cup {exampleKeysLists, exampleKeysDetails} :
           IsPrefix(exampleKeysAll, k)
      /\ \A f \in Filters : IsPrefix(exampleKeysLists, exampleKeysList(f))
      /\ \A id \in Ids : IsPrefix(exampleKeysDetails, exampleKeysDetail(id))
      /\ \A l \in ListKeys, d \in DetailKeys : ~IsPrefix(l, d) /\ ~IsPrefix(d, l)
      /\ \A l \in ListKeys :
           cache[l] # "absent" => invalidated[l] = "invalidated"
      /\ \A d \in DetailKeys : invalidated[d] = cache[d]

\* C16 witness: a create succeeded with a filtered list query and the detail
\* query of the item whose id is "list" in the cache: the lists are
\* invalidated, the detail query is not.
C16_Witness ==
  /\ mutation.pc = "success" /\ mutation.kind = "create"
  /\ cache[exampleKeysLists] = "invalidated"
  /\ cache[exampleKeysList("detail")] = "invalidated"
  /\ cache[exampleKeysDetail("list")] = "fresh"

\* C17: getErrorMessage returns, for an axios error, the response body's
\* message when it is present and non-empty, otherwise the error's own message
\* when non-empty, otherwise 'An unexpected error occurred'; for another Error
\* its message; for any other value 'An unexpected error occurred'.
C17_GetErrorMessage ==
  [][\A e \in ErrorValues :
       (MutationFailure(e) /\ mutation'.pc = "error")
         => logged' =
              CASE e.axios /\ e.body \notin {Null, ""} -> e.body
                [] e.axios /\ e.body \in {Null, ""} /\ e.message # "" -> e.message
                [] e.axios /\ e.body \in {Null, ""} /\ e.message = ""
                     -> "An unexpected error occurred"
                [] ~e.axios /\ e.isError -> e.message
                [] ~e.axios /\ ~e.isError -> "An unexpected error occurred"]_vars

\* C17 witness: onError logged the empty message of an Error that is no axios
\* error (the one input for which the result is the empty string).
C17_Witness ==
  mutation.pc = "error" /\ logged = ""

\* C18: the query layer runs queryFn at most twice (one retry), and a query
\* whose attempts all fail with a status >= 500 makes at most 8 HTTP attempts:
\* two runs of one request and its 3 retries each.
C18_QueryAttemptsBounded ==
  /\ query.runs <= 2
  /\ query.serverErrorsOnly => query.attempts <= 8

\* C18 witness: the query ended in error after 8 attempts that all failed with
\* a status >= 500.
C18_Witness ==
  /\ query.status = "error" /\ query.runs = 2 /\ query.failureCount = 2
  /\ query.serverErrorsOnly /\ query.attempts = 8

\* C19: when logoutUser is fulfilled, user, token and refreshToken become
\* null, isAuthenticated and isLoading become false, both tokens are removed
\* from localStorage, and the error field is left as it was.
C19_LogoutFulfilled ==
  [][\A r \in Reqs :
       (req[r].pc = "inflight" /\ req[r].kind = "logout")
         => \A p \in Payloads :
              ResponseOk(r, p)
                => /\ auth' = [auth EXCEPT !.user = Null, !.token = Null,
                                           !.refreshToken = Null,
                                           !.isAuthenticated = FALSE,
                                           !.isLoading = FALSE]
                   /\ auth'.error = auth.error
                   /\ ls'.auth_token = Null
                   /\ ls'.refresh_token = Null]_vars

\* C19 witness: in a session restored at page load, a logout failed and left
\* its message in the slice; the next logout was fulfilled, and the message
\* is still there.
C19_Witness ==
  /\ persisted # <<>>
  /\ sent = 2 /\ req[1].pc = "done" /\ req[2].pc = "idle"
  /\ auth.user = Null /\ auth.token = Null /\ auth.refreshToken = Null
  /\ ~auth.isAuthenticated /\ ~auth.isLoading
  /\ auth.error # Null
  /\ ls = EmptyStorage
  /\ location = "/login"

\* C20: when logoutUser is rejected, user, token, refreshToken,
\* isAuthenticated and both localStorage tokens are unchanged, isLoading
\* becomes false, and error is the failure's message or 'Logout failed'.
C20_LogoutRejected ==
  [][\A r \in Reqs :
       (/\ req[r].kind = "logout"
        /\ req[r].pc \in {"inflight", "refreshing"}
        /\ req'[r].pc = "rejected")
         => /\ auth'.user = auth.user
            /\ auth'.token = auth.token
            /\ auth'.refreshToken = auth.refreshToken
            /\ auth'.isAuthenticated = auth.isAuthenticated
            /\ ls' = ls
            /\ ~auth'.isLoading
            /\ auth'.error \in {getErrorMessage(req'[r].err), "Logout failed"}]_vars

\* C21: when a request receives 401 and no refresh token is stored, no refresh
\* call is made, no stored token is removed, no redirect happens, and the
\* caller's promise rejects with that 401 error.
C21_NoRefreshTokenRejects ==
  [][\A r \in Reqs :
       (req[r].pc = "inflight" /\ ls.refresh_token = Null)
         => \A e \in Errors :
              (e.status = 401 /\ ResponseError(r, e))
                => /\ req'[r].pc = "rejected"
                   /\ req'[r].err = e
                   /\ req'[r].refreshes = req[r].refreshes
                   /\ \A o \in Reqs : req'[o].pc # "refreshing" \/ req[o].pc = "refreshing"
                   /\ ls' = ls
                   /\ href' = href
                   /\ loggedOut' = loggedOut]_vars

\* C21 witness: with nothing in localStorage a request was rejected with the
\* 401 it received, without a refresh call and without a redirect.
C21_Witness ==
  /\ ls = EmptyStorage
  /\ href = Null
  /\ \E r \in Reqs : /\ req[r].pc = "rejected"
                     /\ req[r].err.status = 401
                     /\ req[r].refreshes = 0

\* C22: in every reachable state the auth token held in the auth slice equals
\* the auth token stored in localStorage: both absent or both the same value.
C22_TokenInSync == auth.token = ls.auth_token

\* C23: in every state the auth actions can reach from the initial auth state,
\* isAuthenticated = true implies that token and refreshToken are non-null.
C23_AuthenticatedHasTokens ==
  auth.isAuthenticated => (auth.token # Null /\ auth.refreshToken # Null)

\* C23 witness: a visitor without a stored session was given credentials; the
\* slice is authenticated while a thunk is pending and an error is held.
C23_Witness ==
  /\ persisted = <<>>
  /\ auth.isAuthenticated /\ auth.token = "t2" /\ auth.refreshToken = "r1"
  /\ auth.isLoading /\ auth.error # Null

\* C24: whenever at least one auth thunk (login, register or logout) is in
\* flight, isLoading is true; isLoading is false only when none is in flight.
C24_LoadingWhileInFlight ==
  (\E r \in Reqs : /\ req[r].pc \in {"inflight", "retryWait", "refreshing"}
                   /\ req[r].kind \in {"login", "register", "logout"})
    => auth.isLoading

\* C25: with two requests handling a 401 concurrently, a token stored by one
\* request's successful refresh is not removed by the other request's failed
\* refresh: when a refresh fails while the other request, its own refresh done,
\* is being replayed, localStorage still holds an auth token and the refresh
\* token.
C25_RefreshedTokenSurvives ==
  [][\A r \in Reqs :
       (/\ req[r].pc = "refreshing"
        /\ \E o \in Reqs \ {r} : /\ req[o].refreshes = 1
                                 /\ req[o].pc \in {"inflight", "retryWait"})
         => \A e \in Errors :
              RefreshFail(r, e)
                => /\ ls'.auth_token # Null
                   /\ ls'.refresh_token # Null]_vars
====
